---- MODULE Spec2Model ----
(***************************************************************************)
(* django-bulk-sync: bulk_sync, bulk_compare and compare_objs               *)
(* (src/bulk_sync/__init__.py) over the Employee table of                  *)
(* src/tests/models.py.                                                    *)
(*                                                                         *)
(* A stored row is [name, age, company]; the table `db` maps each primary  *)
(* key present to its row.  A desired object is [pk, name, age, company],  *)
(* pk = 0 standing for None.  A value of the IntegerField `age` is tagged  *)
(* with its Python type: [int |-> 40] is the integer 40, [str |-> <<4,0>>] *)
(* is the string "40".  The database stores integers only.                 *)
(*                                                                         *)
(* The storage layer is the one the spec names: transactions, row locks    *)
(* taken by SELECT ... FOR UPDATE on the rows the query returns, and       *)
(* READ COMMITTED visibility (a statement sees committed rows and the      *)
(* transaction's own writes).                                              *)
(***************************************************************************)
EXTENDS Integers, Sequences, FiniteSets, TLC

\* ------------------------------------------------------------- bounds
MaxRows == 2        \* rows in the table when the first call starts
MaxLen == 2         \* length of new_models
MaxCalls == 1       \* bulk_sync calls made by one caller
MaxRuns == 2        \* runs of one call made in succession

Procs == {1, 2}
Names == {"Scott", "Isaac"}
Companies == {1, 2}
IntAges == {[int |-> 9], [int |-> 40]}
RawAges == IntAges \cup {[str |-> <<4, 0>>]}
ModelFields == {"id", "name", "age", "company"}

None == 0
NoFilter == 0

\* ------------------------------------------------------------- helpers
Max(S) == IF S = {} THEN 0 ELSE CHOOSE x \in S : \A y \in S : y <= x
Min(S) == CHOOSE x \in S : \A y \in S : x <= y

RECURSIVE SeqOfSet(_)
\* ascending order: order_by("pk")
SeqOfSet(S) == IF S = {} THEN <<>> ELSE <<Min(S)>> \o SeqOfSet(S \ {Min(S)})

Range(s) == {s[i] : i \in 1..Len(s)}

RECURSIVE ParseInt(_)
\* int("40"): the decimal value of a digit string
ParseInt(s) == IF Len(s) = 0 THEN 0
               ELSE 10 * ParseInt(SubSeq(s, 1, Len(s) - 1)) + s[Len(s)]

\* IntegerField.to_python / CharField.to_python
to_python(k, v) ==
    IF k = "age"
    THEN (IF "str" \in DOMAIN v THEN [int |-> ParseInt(v.str)] ELSE v)
    ELSE v

\* faulty variant: the key of a desired object is not canonicalized
prep_identity(k, v) == v

\* prep_functions[k]: field.to_python for each key field
prep_functions(k, v) == to_python(k, v)

\* get_key(obj, prep_values)
get_key(obj, key_fields, prep_values) ==
    [i \in 1..Len(key_fields) |->
        IF prep_values THEN prep_functions(key_fields[i], obj[key_fields[i]])
        ELSE obj[key_fields[i]]]

\* the value the database stores for a field of an object being written
DbValue(k, v) == to_python(k, v)

RowOf(obj) == [name |-> DbValue("name", obj.name),
               age |-> DbValue("age", obj.age),
               company |-> DbValue("company", obj.company)]

\* faulty variant: the filter is not applied
MatchesAny(row, filters) == TRUE

\* objs.filter(filters) when filters is truthy
Matches(row, filters) == filters = NoFilter \/ row.company = filters

RECURSIVE Reverse(_)
Reverse(q) == IF q = <<>> THEN <<>> ELSE Append(Reverse(Tail(q)), Head(q))

\* faulty variant: the filter is left out of the locking query
ScopePksAll(table, filters) == DOMAIN table

ScopePks(table, filters) == {pk \in DOMAIN table : Matches(table[pk], filters)}

\* faulty variant: no order_by, the rows come as the storage layer scans them,
\* one way for the whole table and another for a filtered query
CandidatesAnyOrder(table, filters) ==
    IF filters = NoFilter THEN SeqOfSet(ScopePks(table, filters))
    ELSE Reverse(SeqOfSet(ScopePks(table, filters)))

\* objs.only(...).select_for_update().order_by("pk"): the rows to lock, in order
Candidates(table, filters) == SeqOfSet(ScopePks(table, filters))

\* ------------------------------------------------------------- obj_dict
\* A Python dict in insertion order: a sequence of [key, pk] entries with
\* pairwise distinct keys.  Only the pk of the stored object is used later.
DictHas(d, k) == \E i \in 1..Len(d) : d[i].key = k

DictGet(d, k) == IF DictHas(d, k)
                 THEN d[CHOOSE i \in 1..Len(d) : d[i].key = k].pk
                 ELSE None

\* d[k] = v: a key already present keeps its position and takes the new value
DictPut(d, k, v) ==
    IF DictHas(d, k)
    THEN [i \in 1..Len(d) |-> IF d[i].key = k THEN [key |-> k, pk |-> v] ELSE d[i]]
    ELSE Append(d, [key |-> k, pk |-> v])

\* faulty variant: the oldest entry is removed, whatever its key
DictRemoveFirst(d, k) == IF d = <<>> THEN d ELSE Tail(d)

\* what d.pop(k, None) leaves in d
DictRemove(d, k) == SelectSeq(d, LAMBDA e : e.key # k)

RECURSIVE BuildDict(_, _, _)
\* obj_dict = {get_key(obj): obj for obj in objs}
BuildDict(objs, key_fields, d) ==
    IF objs = <<>> THEN d
    ELSE BuildDict(Tail(objs), key_fields,
                   DictPut(d, get_key(Head(objs), key_fields, FALSE), Head(objs).pk))

\* faulty variant: the pk of the matched row is not copied onto the desired object
ClassifyStepNoPk(st, new_obj, key_fields) ==
    LET k == get_key(new_obj, key_fields, TRUE)
    IN  IF DictGet(st.obj_dict, k) = None
        THEN [st EXCEPT !.new_objs = Append(@, new_obj)]
        ELSE [obj_dict |-> DictRemove(st.obj_dict, k),
              new_objs |-> st.new_objs,
              existing_objs |-> Append(st.existing_objs, new_obj)]

\* faulty variant: a desired object equal to one already classified create is dropped
ClassifyStepDedup(st, new_obj, key_fields) ==
    LET k == get_key(new_obj, key_fields, TRUE)
        old_pk == DictGet(st.obj_dict, k)
    IN  IF old_pk = None
        THEN (IF new_obj \in Range(st.new_objs) THEN st
              ELSE [st EXCEPT !.new_objs = Append(@, new_obj)])
        ELSE [obj_dict |-> DictRemove(st.obj_dict, k),
              new_objs |-> st.new_objs,
              existing_objs |-> Append(st.existing_objs, [new_obj EXCEPT !.pk = old_pk])]

\* one iteration of `for new_obj in new_models`
ClassifyStep(st, new_obj, key_fields) ==
    LET k == get_key(new_obj, key_fields, TRUE)
        old_pk == DictGet(st.obj_dict, k)
    IN  IF old_pk = None
        THEN [st EXCEPT !.new_objs = Append(@, new_obj)]
        ELSE [obj_dict |-> DictRemove(st.obj_dict, k),
              new_objs |-> st.new_objs,
              existing_objs |-> Append(st.existing_objs, [new_obj EXCEPT !.pk = old_pk])]

RECURSIVE ClassifyLoopReversed(_, _, _)
\* faulty variant: new_models is gone through from its last object to its first
ClassifyLoopReversed(st, models, key_fields) ==
    IF models = <<>> THEN st
    ELSE ClassifyStep(ClassifyLoopReversed(st, Tail(models), key_fields),
                      Head(models), key_fields)

RECURSIVE ClassifyLoop(_, _, _)
\* `for new_obj in new_models`
ClassifyLoop(st, models, key_fields) ==
    IF models = <<>> THEN st
    ELSE ClassifyLoop(ClassifyStep(st, Head(models), key_fields), Tail(models), key_fields)

\* the partition of new_models against the fetched objects
Classify(objs, new_models, key_fields) ==
    ClassifyLoop([obj_dict |-> BuildDict(objs, key_fields, <<>>),
                  new_objs |-> <<>>, existing_objs |-> <<>>],
                 new_models, key_fields)

\* ------------------------------------------------------------- arguments
NoArg == [given |-> FALSE]
Arg(v) == [given |-> TRUE, val |-> v]

\* fields that are not the primary key, not auto-created, and editable
DefaultFields == {"name", "age", "company"}

\* the model cannot be identified: an empty list and no db_class
NoDbClass(a) == ~a.db_class /\ a.new_models = <<>> /\ ~a.queryset

\* faulty variant: exclude_fields is not checked against the model's fields
BadExcludeNever(a) == FALSE

\* exclude_fields names a field the model does not have
BadExclude(a) == a.exclude_fields.given /\ ~(a.exclude_fields.val \subseteq ModelFields)

\* the field set handed to bulk_update
EffectiveFields(a) ==
    LET fields == IF a.fields.given THEN a.fields.val ELSE DefaultFields
    IN  IF a.exclude_fields.given THEN fields \ a.exclude_fields.val ELSE fields

RECURSIVE Chunks(_, _)
\* the batches of a bulk write: batch_size objects each, all of them when None
Chunks(s, n) ==
    IF s = <<>> THEN <<>>
    ELSE IF n = None \/ Len(s) <= n THEN <<s>>
    ELSE <<SubSeq(s, 1, n)>> \o Chunks(SubSeq(s, n + 1, Len(s)), n)

\* bulk_create inserts the objects that carry a pk first, then the others
CreateBatches(objs, n) ==
    Chunks(SelectSeq(objs, LAMBDA o : o.pk # None), n)
        \o Chunks(SelectSeq(objs, LAMBDA o : o.pk = None), n)

UpdateBatches(objs, n) == Chunks(objs, n)

NoStats == [created |-> 0, updated |-> 0, deleted |-> 0]

\* ------------------------------------------------------------- storage statements
RECURSIVE InsertObjsUpsert(_, _, _)
\* faulty variant: an object whose pk is present overwrites that row, as save() would
InsertObjsUpsert(table, batch, top) ==
    IF batch = <<>> THEN [ok |-> TRUE, table |-> table]
    ELSE LET o == Head(batch)
             pk == IF o.pk = None THEN 1 + Max(DOMAIN table \cup {top}) ELSE o.pk
         IN  InsertObjsUpsert((pk :> RowOf(o)) @@ table, Tail(batch), top)

RECURSIVE InsertObjs(_, _, _)
\* one INSERT statement: every object gets its own pk or the next automatic one;
\* a pk already present is a uniqueness violation
InsertObjs(table, batch, top) ==
    IF batch = <<>> THEN [ok |-> TRUE, table |-> table]
    ELSE LET o == Head(batch)
             pk == IF o.pk = None THEN 1 + Max(DOMAIN table \cup {top}) ELSE o.pk
         IN  IF pk \in DOMAIN table THEN [ok |-> FALSE, table |-> table]
             ELSE InsertObjs(table @@ (pk :> RowOf(o)), Tail(batch), top)

\* faulty variant: every field of the object is written, as save() would
UpdateObjsAllFields(table, batch, fields) ==
    [pk \in DOMAIN table |->
        IF \E i \in 1..Len(batch) : batch[i].pk = pk
        THEN RowOf(batch[CHOOSE i \in 1..Len(batch) : batch[i].pk = pk])
        ELSE table[pk]]

\* one UPDATE statement of bulk_update: the fields given, WHERE pk = obj.pk
UpdateObjs(table, batch, fields) ==
    [pk \in DOMAIN table |->
        IF \E i \in 1..Len(batch) : batch[i].pk = pk
        THEN LET o == batch[CHOOSE i \in 1..Len(batch) : batch[i].pk = pk]
             IN  [f \in DOMAIN table[pk] |->
                    IF f \in fields THEN DbValue(f, o[f]) ELSE table[pk][f]]
        ELSE table[pk]]

\* faulty variant: objs.delete(), without the pk__in restriction
DeleteAllInScope(table, filters, d) == ScopePks(table, filters)

\* objs.filter(pk__in=[...]).delete(): the rows of the list still in scope
DeletePks(table, filters, d) ==
    {pk \in {d[i].pk : i \in 1..Len(d)} : pk \in DOMAIN table /\ Matches(table[pk], filters)}

\* faulty variant: the computed sizes are reported for skipped phases too
StatsComputed(a, n_new_models, n_new_objs, n_obj_dict) ==
    [created |-> n_new_objs, updated |-> n_new_models - n_new_objs, deleted |-> n_obj_dict]

\* faulty variant: every desired object is counted as updated
StatsAllUpdated(a, n_new_models, n_new_objs, n_obj_dict) ==
    [created |-> IF a.skip_creates THEN 0 ELSE n_new_objs,
     updated |-> IF a.skip_updates THEN 0 ELSE n_new_models,
     deleted |-> IF a.skip_deletes THEN 0 ELSE n_obj_dict]

\* the stats mapping
Stats(a, n_new_models, n_new_objs, n_obj_dict) ==
    [created |-> IF a.skip_creates THEN 0 ELSE n_new_objs,
     updated |-> IF a.skip_updates THEN 0 ELSE n_new_models - n_new_objs,
     deleted |-> IF a.skip_deletes THEN 0 ELSE n_obj_dict]

\* the objects a SELECT returns for the pks given, in that order
Fetched(table, pks) ==
    [i \in 1..Len(pks) |->
        [pk |-> pks[i], name |-> table[pks[i]].name, age |-> table[pks[i]].age,
         company |-> table[pks[i]].company]]

RECURSIVE InsertBatches(_, _, _)
\* top: the highest pk the table has ever held
InsertBatches(table, bs, top) ==
    IF bs = <<>> THEN [ok |-> TRUE, table |-> table]
    ELSE LET r == InsertObjs(table, Head(bs), top)
         IN  IF r.ok THEN InsertBatches(r.table, Tail(bs), top) ELSE r

RECURSIVE UpdateBatchesOn(_, _, _)
UpdateBatchesOn(table, bs, fields) ==
    IF bs = <<>> THEN table
    ELSE UpdateBatchesOn(UpdateObjs(table, Head(bs), fields), Tail(bs), fields)

\* bulk_sync run alone on `table`, from the call to the return or the
\* exception; top is the highest pk the table has ever held
RunSync(table, top, a) ==
    LET part == Classify(Fetched(table, Candidates(table, a.filters)),
                         a.new_models, a.key_fields)
        created == IF a.skip_creates THEN [ok |-> TRUE, table |-> table]
                   ELSE InsertBatches(table, CreateBatches(part.new_objs, a.batch_size), top)
        updated == IF a.skip_updates THEN created.table
                   ELSE UpdateBatchesOn(created.table,
                                        UpdateBatches(part.existing_objs, a.batch_size),
                                        EffectiveFields(a))
        deleted == IF a.skip_deletes THEN {}
                   ELSE DeletePks(updated, a.filters, part.obj_dict)
    IN  IF NoDbClass(a)
        THEN [result |-> "RuntimeError", table |-> table, top |-> top, stats |-> NoStats]
        ELSE IF BadExclude(a)
        THEN [result |-> "FieldDoesNotExist", table |-> table, top |-> top, stats |-> NoStats]
        ELSE IF ~created.ok
        THEN [result |-> "IntegrityError", table |-> table, top |-> top, stats |-> NoStats]
        ELSE IF ~a.skip_updates /\ EffectiveFields(a) = {}
        THEN [result |-> "ValueError", table |-> table, top |-> top, stats |-> NoStats]
        ELSE [result |-> "ok",
              table |-> [pk \in DOMAIN updated \ deleted |-> updated[pk]],
              top |-> Max({top} \cup DOMAIN created.table),
              stats |-> Stats(a, Len(a.new_models), Len(part.new_objs), Len(part.obj_dict))]

\* ------------------------------------------------------------- state
VARIABLES
    db,             \* committed table: pk -> row
    pc,             \* per caller: where its bulk_sync call is
    args,           \* per caller: the arguments of its call
    pre,            \* per caller: the committed table when its call started
    cand,           \* per caller: pks its locking SELECT has still to lock
    locks,          \* per caller: pks of the rows it holds locked
    objs,           \* per caller: the objects its SELECT returned, by pk
    obj_dict,       \* per caller: the lookup, less the entries popped
    new_objs,       \* per caller: desired objects classified create
    existing_objs,  \* per caller: desired objects classified update, pk set
    batches,        \* per caller: batches of the running bulk write
    ins,            \* per caller: uncommitted inserted or updated rows
    dels,           \* per caller: uncommitted deleted pks
    stats,          \* per caller: the stats mapping
    result,         \* per caller: "ok" or the exception the call raised
    calls,          \* per caller: calls started
    cmp,            \* the bulk_compare call: its arguments, locals and position
    seq,            \* seq[0]: the pk counter, which the next automatic pk
                    \* follows: the highest pk the table has ever held or,
                    \* with a sequence, the last value drawn; seq[p]: what it
                    \* was when the call of p started
    returns_ids,    \* the backend's bulk_create sets the pk of the objects it inserts
    sequence        \* the backend draws automatic pks from a sequence, which
                    \* explicit pks and rollbacks leave alone; otherwise an
                    \* automatic pk follows the highest pk the table has held

txvars == <<cand, locks, objs, obj_dict, new_objs, existing_objs, batches, ins, dels>>
vars == <<db, pc, args, pre, txvars, stats, result, calls, cmp, seq, returns_ids, sequence>>

Empty == [pk \in {} |-> 0]

\* what a statement of caller p sees: committed rows and p's own writes
View(p) ==
    [pk \in (DOMAIN db \cup DOMAIN ins[p]) \ dels[p] |->
        IF pk \in DOMAIN ins[p] THEN ins[p][pk] ELSE db[pk]]

\* pks in use anywhere, committed or not: without a sequence, the automatic
\* pk of a row follows them all
UsedPks == DOMAIN db \cup UNION {DOMAIN ins[q] : q \in Procs}

LockedByOther(p, pk) == \E q \in Procs \ {p} : pk \in locks[q]

\* ------------------------------------------------------------- actions
\* faulty variant: no enclosing transaction, the writes made so far stay
RaiseKeepsWrites(p, err) ==
    /\ db' = View(p)
    /\ pc' = [pc EXCEPT ![p] = "raised"]
    /\ result' = [result EXCEPT ![p] = err]
    /\ locks' = [locks EXCEPT ![p] = {}]
    /\ ins' = [ins EXCEPT ![p] = Empty]
    /\ dels' = [dels EXCEPT ![p] = {}]
    /\ cand' = [cand EXCEPT ![p] = <<>>]
    /\ objs' = [objs EXCEPT ![p] = <<>>]
    /\ obj_dict' = [obj_dict EXCEPT ![p] = <<>>]
    /\ new_objs' = [new_objs EXCEPT ![p] = <<>>]
    /\ existing_objs' = [existing_objs EXCEPT ![p] = <<>>]
    /\ batches' = [batches EXCEPT ![p] = <<>>]
    /\ UNCHANGED <<args, pre, stats, calls, cmp, seq, returns_ids, sequence>>

\* leaving `with transaction.atomic()` by an exception: rollback
Raise(p, err) ==
    /\ pc' = [pc EXCEPT ![p] = "raised"]
    /\ result' = [result EXCEPT ![p] = err]
    /\ locks' = [locks EXCEPT ![p] = {}]
    /\ ins' = [ins EXCEPT ![p] = Empty]
    /\ dels' = [dels EXCEPT ![p] = {}]
    /\ cand' = [cand EXCEPT ![p] = <<>>]
    /\ objs' = [objs EXCEPT ![p] = <<>>]
    /\ obj_dict' = [obj_dict EXCEPT ![p] = <<>>]
    /\ new_objs' = [new_objs EXCEPT ![p] = <<>>]
    /\ existing_objs' = [existing_objs EXCEPT ![p] = <<>>]
    /\ batches' = [batches EXCEPT ![p] = <<>>]
    /\ UNCHANGED <<db, args, pre, stats, calls, cmp, seq, returns_ids, sequence>>

\* bulk_sync is called: the model class and the field set are resolved, the
\* transaction is opened and the locking SELECT is issued
Call(p, a) ==
    /\ calls' = [calls EXCEPT ![p] = @ + 1]
    /\ args' = [args EXCEPT ![p] = a]
    /\ pre' = [pre EXCEPT ![p] = db]
    /\ stats' = [stats EXCEPT ![p] = NoStats]
    /\ objs' = [objs EXCEPT ![p] = <<>>]
    /\ obj_dict' = [obj_dict EXCEPT ![p] = <<>>]
    /\ new_objs' = [new_objs EXCEPT ![p] = <<>>]
    /\ existing_objs' = [existing_objs EXCEPT ![p] = <<>>]
    /\ IF NoDbClass(a)
       THEN /\ pc' = [pc EXCEPT ![p] = "raised"]
            /\ result' = [result EXCEPT ![p] = "RuntimeError"]
            /\ cand' = [cand EXCEPT ![p] = <<>>]
       ELSE IF BadExclude(a)
       THEN /\ pc' = [pc EXCEPT ![p] = "raised"]
            /\ result' = [result EXCEPT ![p] = "FieldDoesNotExist"]
            /\ cand' = [cand EXCEPT ![p] = <<>>]
       ELSE /\ pc' = [pc EXCEPT ![p] = "fetch"]
            /\ result' = [result EXCEPT ![p] = "running"]
            /\ cand' = [cand EXCEPT ![p] = Candidates(db, a.filters)]
    /\ seq' = [seq EXCEPT ![p] = seq[0]]
    /\ UNCHANGED <<db, locks, batches, ins, dels, cmp, returns_ids, sequence>>

\* a caller makes one call at a time, MaxCalls of them
CanCall(p) == pc[p] \in {"idle", "done", "raised"} /\ calls[p] < MaxCalls

\* a candidate is locked and returned if it is still there and still in scope
StillThere(p, pk) == pk \in DOMAIN db /\ Matches(db[pk], args[p].filters)

\* the locking fetch of p can take its next row: no other caller holds it
CanFetch(p) ==
    /\ pc[p] = "fetch"
    /\ cand[p] # <<>> => ~LockedByOther(p, Head(cand[p]))

\* `for obj in objs`: the SELECT ... FOR UPDATE ... ORDER BY pk locks the rows
\* one after the other, a row a step, and waits at a row another transaction
\* holds; once it has them all, obj_dict is built and new_models is partitioned
Fetch(p) ==
    /\ CanFetch(p)
    /\ LET got == IF cand[p] = <<>> THEN <<>> ELSE <<Head(cand[p])>>
           rest == IF cand[p] = <<>> THEN <<>> ELSE Tail(cand[p])
           rows == SelectSeq(got, LAMBDA pk : StillThere(p, pk))
           found == objs[p] \o Fetched(db, rows)
           part == Classify(found, args[p].new_models, args[p].key_fields)
       IN  /\ locks' = [locks EXCEPT ![p] = @ \cup Range(rows)]
           /\ objs' = [objs EXCEPT ![p] = found]
           /\ cand' = [cand EXCEPT ![p] = rest]
           /\ IF rest = <<>>
              THEN /\ obj_dict' = [obj_dict EXCEPT ![p] = part.obj_dict]
                   /\ new_objs' = [new_objs EXCEPT ![p] = part.new_objs]
                   /\ existing_objs' = [existing_objs EXCEPT ![p] = part.existing_objs]
                   /\ batches' = [batches EXCEPT ![p] =
                         IF args[p].skip_creates THEN <<>>
                         ELSE CreateBatches(part.new_objs, args[p].batch_size)]
                   /\ pc' = [pc EXCEPT ![p] = "create"]
              ELSE UNCHANGED <<obj_dict, new_objs, existing_objs, batches, pc>>
    /\ UNCHANGED <<db, args, pre, ins, dels, stats, result, calls, cmp, seq, returns_ids, sequence>>

\* the INSERT of a row waits while another transaction holds an uncommitted
\* row of the pk the row is to get: the pk its object carries or the one drawn
\* from the sequence for it
InsertBlocked(p, batch) ==
    \E i \in 1..Len(batch) : \E q \in Procs \ {p} :
        batch[i].pk # None /\ batch[i].pk \in DOMAIN ins[q] \ DOMAIN db

\* the row the running INSERT statement of p has reached
NextRow(p) == Head(Head(batches[p]))

\* caller p waits for caller q: at a row of its locking fetch that q holds, or
\* at the row of an INSERT whose pk q has inserted and not committed
WaitsFor(p, q) ==
    \/ pc[p] = "fetch" /\ cand[p] # <<>> /\ Head(cand[p]) \in locks[q]
    \/ /\ pc[p] = "create" /\ batches[p] # <<>>
       /\ NextRow(p).pk # None
       /\ NextRow(p).pk \in DOMAIN ins[q] \ DOMAIN db

\* the batches bulk_update runs after the create phase
NextUpdateBatches(p) ==
    IF args[p].skip_updates THEN <<>>
    ELSE UpdateBatches(existing_objs[p], args[p].batch_size)

\* the batches of the create phase once the row reached is written
AfterRow(p) ==
    IF Len(Head(batches[p])) > 1 THEN <<Tail(Head(batches[p]))>> \o Tail(batches[p])
    ELSE Tail(batches[p])

\* on a backend with a sequence, the row of an object without a pk takes the
\* next value of the sequence before it is written; the draw is not undone by
\* a rollback and does not look at the pks in the table
Draw(p) ==
    /\ sequence
    /\ pc[p] = "create" /\ batches[p] # <<>>
    /\ NextRow(p).pk = None
    /\ seq' = [seq EXCEPT ![0] = @ + 1]
    /\ batches' = [batches EXCEPT ![p] =
          <<<<[NextRow(p) EXCEPT !.pk = seq[0] + 1]>> \o Tail(Head(@))>> \o Tail(@)]
    /\ UNCHANGED <<db, pc, args, pre, cand, locks, objs, obj_dict, new_objs,
                   existing_objs, ins, dels, stats, result, calls, cmp, returns_ids,
                   sequence>>

\* `if not skip_creates: bulk_create(new_objs, batch_size)`: the INSERT
\* statements write their rows one after the other, a row a step, and wait at a
\* row whose pk another transaction has inserted and not committed
Create(p) ==
    /\ pc[p] = "create"
    /\ IF batches[p] = <<>>
       THEN /\ pc' = [pc EXCEPT ![p] = "update"]
            /\ batches' = [batches EXCEPT ![p] = NextUpdateBatches(p)]
            /\ UNCHANGED <<db, args, pre, cand, locks, objs, obj_dict, new_objs,
                           existing_objs, ins, dels, stats, result, calls, cmp, seq, returns_ids, sequence>>
       ELSE /\ sequence => NextRow(p).pk # None
            /\ ~InsertBlocked(p, <<NextRow(p)>>)
            /\ LET r == InsertObjs(View(p), <<NextRow(p)>>, Max(UsedPks \cup {seq[0]}))
                   added == DOMAIN r.table \ DOMAIN View(p)
               IN  IF ~r.ok THEN Raise(p, "IntegrityError")
                   ELSE /\ ins' = [ins EXCEPT ![p] = @ @@ [pk \in added |-> r.table[pk]]]
                        /\ batches' = [batches EXCEPT ![p] =
                              IF AfterRow(p) = <<>> THEN NextUpdateBatches(p) ELSE AfterRow(p)]
                        /\ pc' = [pc EXCEPT ![p] =
                              IF AfterRow(p) = <<>> THEN "update" ELSE "create"]
                        /\ UNCHANGED <<db, args, pre, cand, locks, objs, obj_dict, new_objs,
                                       existing_objs, dels, stats, result, calls, cmp, seq, returns_ids, sequence>>

\* `if not skip_updates: bulk_update(existing_objs, fields, batch_size)`
Update(p) ==
    /\ pc[p] = "update"
    /\ IF ~args[p].skip_updates /\ EffectiveFields(args[p]) = {}
       THEN Raise(p, "ValueError")
       ELSE IF batches[p] = <<>>
       THEN /\ pc' = [pc EXCEPT ![p] = "delete"]
            /\ UNCHANGED <<db, args, pre, txvars, stats, result, calls, cmp, seq, returns_ids, sequence>>
       ELSE LET t == UpdateObjs(View(p), Head(batches[p]), EffectiveFields(args[p]))
                hit == {pk \in DOMAIN t : \E i \in 1..Len(Head(batches[p])) :
                                             Head(batches[p])[i].pk = pk}
            IN  /\ ins' = [ins EXCEPT ![p] = [pk \in hit |-> t[pk]] @@ @]
                /\ batches' = [batches EXCEPT ![p] = Tail(@)]
                /\ pc' = [pc EXCEPT ![p] =
                      IF Tail(batches[p]) = <<>> THEN "delete" ELSE "update"]
                /\ UNCHANGED <<db, args, pre, cand, locks, objs, obj_dict, new_objs,
                               existing_objs, dels, stats, result, calls, cmp, seq, returns_ids, sequence>>

\* `if not skip_deletes: objs.filter(pk__in=...).delete()`, the assertion and
\* the stats
Delete(p) ==
    /\ pc[p] = "delete"
    /\ IF Len(existing_objs[p]) # Len(args[p].new_models) - Len(new_objs[p])
       THEN Raise(p, "AssertionError")
       ELSE /\ dels' = [dels EXCEPT ![p] =
                  IF args[p].skip_deletes THEN @
                  ELSE @ \cup DeletePks(View(p), args[p].filters, obj_dict[p])]
            /\ stats' = [stats EXCEPT ![p] =
                  Stats(args[p], Len(args[p].new_models), Len(new_objs[p]), Len(obj_dict[p]))]
            /\ pc' = [pc EXCEPT ![p] = "commit"]
            /\ UNCHANGED <<db, args, pre, cand, locks, objs, obj_dict, new_objs,
                           existing_objs, batches, ins, result, calls, cmp, seq, returns_ids, sequence>>

\* leaving `with transaction.atomic()` normally: commit, the locks are released
Commit(p) ==
    /\ pc[p] = "commit"
    /\ db' = View(p)
    /\ pc' = [pc EXCEPT ![p] = "done"]
    /\ result' = [result EXCEPT ![p] = "ok"]
    /\ locks' = [locks EXCEPT ![p] = {}]
    /\ ins' = [ins EXCEPT ![p] = Empty]
    /\ dels' = [dels EXCEPT ![p] = {}]
    /\ seq' = [seq EXCEPT ![0] = IF sequence THEN @ ELSE Max({@} \cup DOMAIN ins[p])]
    /\ UNCHANGED <<args, pre, cand, objs, obj_dict, new_objs, existing_objs, batches,
                   stats, calls, cmp, returns_ids, sequence>>

\* the storage layer fails a statement of the open transaction
StorageError(p) ==
    /\ pc[p] \in {"fetch", "create", "update", "delete", "commit"}
    /\ Raise(p, "DatabaseError")

\* two transactions wait for each other: the storage layer fails the statement
\* of one of them
DeadlockDetected(p) ==
    /\ \E q \in Procs \ {p} : WaitsFor(p, q) /\ WaitsFor(q, p)
    /\ Raise(p, "DatabaseError")

\* ------------------------------------------------------------- inputs
\* the rows the first call can find
Rows == [name : Names, age : {[int |-> 40]}, company : Companies]

\* the tables the first call can find: any such rows under the pks 1..MaxRows
InitTables == UNION {[S -> Rows] : S \in SUBSET (1..MaxRows)}

\* pks a desired object may carry: one that may be stored, one that is not
ExplicitPks == {1, MaxRows + 1}

\* desired objects: without a pk, or carrying one
DesiredObjs ==
    [pk : {None}, name : Names, age : IntAges, company : Companies]
    \cup [pk : {None}, name : {"Scott"}, age : RawAges \ IntAges, company : {1}]
    \cup [pk : ExplicitPks, name : Names, age : {[int |-> 9]}, company : {1}]

NewModels == UNION {[1..n -> DesiredObjs] : n \in 0..MaxLen}

Filters == {NoFilter, 1}

DefaultOptions ==
    [batch_size |-> None, fields |-> NoArg, exclude_fields |-> NoArg,
     skip_creates |-> FALSE, skip_updates |-> FALSE, skip_deletes |-> FALSE,
     db_class |-> FALSE, queryset |-> FALSE]

SkipOptions ==
    {[DefaultOptions EXCEPT !.skip_creates = c, !.skip_updates = u, !.skip_deletes = d] :
        c \in BOOLEAN, u \in BOOLEAN, d \in BOOLEAN}

OtherOptions ==
    {[DefaultOptions EXCEPT !.batch_size = 1]}
    \cup {[DefaultOptions EXCEPT !.fields = Arg(f)] : f \in {{"age"}, {}}}
    \cup {[DefaultOptions EXCEPT !.exclude_fields = Arg(e)] :
            e \in {{"company"}, {"missing_field"}}}
    \cup {[DefaultOptions EXCEPT !.db_class = TRUE], [DefaultOptions EXCEPT !.queryset = TRUE]}
    \cup {[DefaultOptions EXCEPT !.fields = Arg({}), !.skip_updates = TRUE],
          [DefaultOptions EXCEPT !.fields = Arg({"age"}), !.skip_deletes = TRUE]}

MkArgs(m, k, f, o) ==
    [new_models |-> m, passed |-> m, key_fields |-> k, filters |-> f,
     batch_size |-> o.batch_size, fields |-> o.fields, exclude_fields |-> o.exclude_fields,
     skip_creates |-> o.skip_creates, skip_updates |-> o.skip_updates,
     skip_deletes |-> o.skip_deletes, db_class |-> o.db_class, queryset |-> o.queryset]

\* the calls made: the optional arguments are varied one group at a time, and
\* key_fields is one field, two fields or empty
CallArgs ==
    {MkArgs(m, <<"name">>, 1, o) : m \in NewModels, o \in SkipOptions \cup OtherOptions}
    \cup {MkArgs(m, <<"name">>, NoFilter, DefaultOptions) : m \in NewModels}
    \cup {MkArgs(m, <<"name", "age">>, f, DefaultOptions) : m \in NewModels, f \in Filters}
    \cup {MkArgs(m, <<>>, 1, DefaultOptions) : m \in NewModels}

NoCall == MkArgs(<<>>, <<"name">>, NoFilter, DefaultOptions)

\* no bulk_compare call made yet
NoCompare ==
    [pc |-> "idle", old_models |-> <<>>, new_models |-> <<>>, key_fields |-> <<>>,
     ignore_fields |-> NoArg, old_obj_dict |-> <<>>, i |-> 1, new_objs |-> <<>>,
     change_details |-> <<>>, updated_objs |-> <<>>, unchanged_objs |-> <<>>,
     removed |-> <<>>]

\* ------------------------------------------------------------- one caller
Init ==
    /\ db \in InitTables
    /\ pc = [p \in Procs |-> "idle"]
    /\ args = [p \in Procs |-> NoCall]
    /\ pre = [p \in Procs |-> Empty]
    /\ cand = [p \in Procs |-> <<>>]
    /\ locks = [p \in Procs |-> {}]
    /\ objs = [p \in Procs |-> <<>>]
    /\ obj_dict = [p \in Procs |-> <<>>]
    /\ new_objs = [p \in Procs |-> <<>>]
    /\ existing_objs = [p \in Procs |-> <<>>]
    /\ batches = [p \in Procs |-> <<>>]
    /\ ins = [p \in Procs |-> Empty]
    /\ dels = [p \in Procs |-> {}]
    /\ stats = [p \in Procs |-> NoStats]
    /\ result = [p \in Procs |-> "none"]
    /\ calls = [p \in Procs |-> 0]
    /\ cmp = NoCompare
    /\ seq = [q \in {0} \cup Procs |-> Max(DOMAIN db \cup {0})]
    /\ returns_ids = FALSE
    /\ sequence = FALSE

Next ==
    \/ /\ CanCall(1)
       /\ \E a \in CallArgs : Call(1, a)
    \/ Fetch(1)
    \/ Create(1)
    \/ Update(1)
    \/ Delete(1)
    \/ Commit(1)
    \/ StorageError(1)

Spec == Init /\ [][Next]_vars

\* ------------------------------------------------------------- two callers
\* the tables two concurrent callers can find
ConcTables ==
    {Empty,
     (1 :> [name |-> "Scott", age |-> [int |-> 40], company |-> 1]),
     (1 :> [name |-> "Scott", age |-> [int |-> 40], company |-> 1])
        @@ (2 :> [name |-> "Isaac", age |-> [int |-> 40], company |-> 2]),
     (1 :> [name |-> "Scott", age |-> [int |-> 40], company |-> 1])
        @@ (2 :> [name |-> "Isaac", age |-> [int |-> 40], company |-> 1])}

\* the pks their desired objects can carry: pks no table stores
ConcPks == {MaxRows + 1, MaxRows + 2}

\* their desired objects carry no pk, or carry a pk, and are of company f
ConcObjs(f) ==
    [pk : {None}, name : Names, age : {[int |-> 9]}, company : {f}]
    \cup [pk : ConcPks, name : {"Isaac"}, age : {[int |-> 9]}, company : {f}]

ConcModels(f) == UNION {[1..n -> ConcObjs(f)] : n \in 0..MaxLen}

\* the calls two callers make: on the rows of one company or on all rows
ConcArgs ==
    {MkArgs(m, <<"name">>, 1, DefaultOptions) : m \in ConcModels(1)}
    \cup {MkArgs(m, <<"name">>, 2, DefaultOptions) : m \in ConcModels(2)}
    \cup {MkArgs(m, <<"name">>, NoFilter, DefaultOptions) :
             m \in {c \in ConcModels(1) : \A i \in 1..Len(c) : c[i].pk = None}}

InitConc ==
    /\ db \in ConcTables
    /\ pc = [p \in Procs |-> "idle"]
    /\ args = [p \in Procs |-> NoCall]
    /\ pre = [p \in Procs |-> Empty]
    /\ cand = [p \in Procs |-> <<>>]
    /\ locks = [p \in Procs |-> {}]
    /\ objs = [p \in Procs |-> <<>>]
    /\ obj_dict = [p \in Procs |-> <<>>]
    /\ new_objs = [p \in Procs |-> <<>>]
    /\ existing_objs = [p \in Procs |-> <<>>]
    /\ batches = [p \in Procs |-> <<>>]
    /\ ins = [p \in Procs |-> Empty]
    /\ dels = [p \in Procs |-> {}]
    /\ stats = [p \in Procs |-> NoStats]
    /\ result = [p \in Procs |-> "none"]
    /\ calls = [p \in Procs |-> 0]
    /\ cmp = NoCompare
    /\ seq = [q \in {0} \cup Procs |-> Max(DOMAIN db \cup {0})]
    /\ returns_ids = FALSE
    /\ sequence \in BOOLEAN

NextConc ==
    \E p \in Procs :
        \/ /\ CanCall(p)
           /\ \E a \in ConcArgs : Call(p, a)
        \/ Fetch(p)
        \/ Draw(p)
        \/ Create(p)
        \/ Update(p)
        \/ Delete(p)
        \/ Commit(p)
        \/ StorageError(p)
        \/ DeadlockDetected(p)

SpecConc == InitConc /\ [][NextConc]_vars

\* the next statement of the call of p
Proceed(p) == Fetch(p) \/ Draw(p) \/ Create(p) \/ Update(p) \/ Delete(p) \/ Commit(p)

\* the calls whose ending is followed: on no row, on one company, on all
\* rows, and creating two objects that carry a pk, in either order
LiveArgs ==
    {MkArgs(m, <<"name">>, f, DefaultOptions) :
        m \in {c \in ConcModels(1) : Len(c) <= 1 /\ \A i \in 1..Len(c) : c[i].pk = None},
        f \in {1, NoFilter}}
    \cup {MkArgs(m, <<"name">>, 2, DefaultOptions) :
             m \in {c \in ConcModels(2) : Len(c) = 1 /\ c[1].pk = None}}
    \cup {MkArgs(m, <<"name">>, 1, DefaultOptions) :
             m \in {c \in ConcModels(1) :
                       Len(c) = 2 /\ c[1].pk # None /\ c[2].pk # None /\ c[1].pk # c[2].pk}}

NextLive ==
    \E p \in Procs :
        \/ /\ CanCall(p)
           /\ \E a \in LiveArgs : Call(p, a)
        \/ Fetch(p)
        \/ Draw(p)
        \/ Create(p)
        \/ Update(p)
        \/ Delete(p)
        \/ Commit(p)
        \/ StorageError(p)
        \/ DeadlockDetected(p)

\* a call that can run its next statement runs it, and a deadlock is detected
SpecLive ==
    /\ InitConc /\ [][NextLive]_vars
    /\ \A p \in Procs : WF_vars(Proceed(p)) /\ WF_vars(DeadlockDetected(p))

\* ------------------------------------------------------------- properties
Returned(p) == pc[p] = "done"
InCall(p) == pc[p] \in {"fetch", "create", "update", "delete", "commit"}
Classified(p) == pc[p] \in {"create", "update", "delete", "commit", "done"}

NoSkip(a) == ~a.skip_creates /\ ~a.skip_updates /\ ~a.skip_deletes

\* the canonical key of a desired object and the key of a stored row
DesiredKey(a, i) ==
    [k \in 1..Len(a.key_fields) |->
        to_python(a.key_fields[k], a.new_models[i][a.key_fields[k]])]
RawKey(a, i) == [k \in 1..Len(a.key_fields) |-> a.new_models[i][a.key_fields[k]]]
StoredKey(a, row) == [k \in 1..Len(a.key_fields) |-> row[a.key_fields[k]]]

DistinctDesiredKeys(a) ==
    \A i, j \in 1..Len(a.new_models) : i # j => DesiredKey(a, i) # DesiredKey(a, j)

\* a row is in scope; written out, so that it does not rest on Matches
InScope(a, row) == a.filters = NoFilter \/ row.company = a.filters

InScopePks(a, table) == {pk \in DOMAIN table : InScope(a, table[pk])}

DistinctStoredKeys(a, table) ==
    \A j, k \in InScopePks(a, table) :
        j # k => StoredKey(a, table[j]) # StoredKey(a, table[k])

DesiredInScope(a) == \A i \in 1..Len(a.new_models) : InScope(a, RowOf(a.new_models[i]))

\* the in-scope rows of `table` and the desired objects correspond one to one
\* by key, and each row holds the values of its desired object
TableMatches(a, table) ==
    /\ Cardinality(InScopePks(a, table)) = Len(a.new_models)
    /\ \A i \in 1..Len(a.new_models) : \E pk \in InScopePks(a, table) :
          /\ StoredKey(a, table[pk]) = DesiredKey(a, i)
          /\ table[pk] = RowOf(a.new_models[i])

C1_Case(a) ==
    /\ NoSkip(a)
    /\ ~a.fields.given /\ ~a.exclude_fields.given
    /\ DistinctDesiredKeys(a)
    /\ DesiredInScope(a)

\* C1 as stated: after a call that returns, with no skip flag and the default
\* field set, desired keys pairwise distinct and all desired objects in scope,
\* the in-scope rows correspond one to one to the desired objects
C1_AsStated == Returned(1) /\ C1_Case(args[1]) => TableMatches(args[1], db)

\* C1 amended: the same, provided the in-scope rows the call found had pairwise
\* distinct keys
C1_TableMatchesDesired ==
    Returned(1) /\ C1_Case(args[1]) /\ DistinctStoredKeys(args[1], pre[1])
        => TableMatches(args[1], db)

\* a call of that kind that created, updated and deleted
C1_Witness ==
    /\ Returned(1) /\ C1_Case(args[1]) /\ DistinctStoredKeys(args[1], pre[1])
    /\ stats[1].created > 0 /\ stats[1].updated > 0 /\ stats[1].deleted > 0
    /\ \E pk \in DOMAIN pre[1] \cap DOMAIN db : db[pk] # pre[1][pk]

\* the number of objects of `objects` that have the field values of o
CountOf(o, objects) ==
    Cardinality({i \in 1..Len(objects) :
        \A f \in {"name", "age", "company"} : objects[i][f] = o[f]})

\* C2: every desired object is classified as exactly one of create or update:
\* the two lists together hold each desired object once, their lengths add up
\* to the number of desired objects, and the assertion never fails
C2_CreateOrUpdate ==
    /\ result[1] # "AssertionError"
    /\ Classified(1) =>
          /\ Len(new_objs[1]) + Len(existing_objs[1]) = Len(args[1].new_models)
          /\ \A i \in 1..Len(args[1].new_models) :
                CountOf(args[1].new_models[i], args[1].new_models)
                    = CountOf(args[1].new_models[i], new_objs[1])
                      + CountOf(args[1].new_models[i], existing_objs[1])

\* a call that returned with one object created and one updated
C2_Witness ==
    Returned(1) /\ Len(new_objs[1]) = 1 /\ Len(existing_objs[1]) = 1

UpdateTargets(p) == {existing_objs[p][i].pk : i \in 1..Len(existing_objs[p])}

\* every in-scope row the call found is an update target or is deleted, not
\* both, and deleted = |in-scope rows| - updated
PersistedPartition(p) ==
    /\ \A pk \in InScopePks(args[p], pre[p]) :
          (pk \in UpdateTargets(p)) # (pk \notin DOMAIN db)
    /\ stats[p].deleted = Cardinality(InScopePks(args[p], pre[p])) - stats[p].updated

\* C3 as stated: in every call with no skip flag, for all desired and persisted
\* sets, every in-scope persisted row ends as exactly one of update target or
\* deleted, and deleted = |in-scope persisted| - updated
C3_AsStated == Returned(1) /\ NoSkip(args[1]) => PersistedPartition(1)

\* C3 amended: the same, provided the in-scope rows the call found had pairwise
\* distinct keys
C3_PersistedPartition ==
    Returned(1) /\ NoSkip(args[1]) /\ DistinctStoredKeys(args[1], pre[1])
        => PersistedPartition(1)

\* a call that updated one in-scope row and deleted the other
C3_Witness ==
    /\ Returned(1) /\ NoSkip(args[1]) /\ DistinctStoredKeys(args[1], pre[1])
    /\ stats[1].updated = 1 /\ stats[1].deleted = 1

\* the rows of the table that the call's filter leaves out
OutOfScopePks(p) == DOMAIN pre[p] \ InScopePks(args[p], pre[p])

\* C4: a row that does not satisfy the scope filter is left as it was, in the
\* transaction and after it, is not locked, and its pk is never copied onto a
\* desired object, even when its key equals the key of a desired object
C4_OutOfScopeUntouched ==
    pc[1] # "idle" =>
        \A pk \in OutOfScopePks(1) :
            /\ pk \in DOMAIN db /\ db[pk] = pre[1][pk]
            /\ pk \in DOMAIN View(1) /\ View(1)[pk] = pre[1][pk]
            /\ pk \notin locks[1]
            /\ pk \notin UpdateTargets(1)
            /\ \A i \in 1..Len(obj_dict[1]) : obj_dict[1][i].pk # pk

\* a call returned that left alone an out-of-scope row with the key of a desired
\* object, which it created instead
C4_Witness ==
    /\ Returned(1) /\ stats[1].created > 0
    /\ \E pk \in OutOfScopePks(1) : \E i \in 1..Len(args[1].new_models) :
          StoredKey(args[1], pre[1][pk]) = DesiredKey(args[1], i)

\* C5 as stated: every row the create phase inserts satisfies the scope filter
C5_AsStated ==
    Returned(1) => \A pk \in DOMAIN db \ DOMAIN pre[1] : InScope(args[1], db[pk])

\* a call run step by step ends as the call run in one piece
StepsAgreeWithRun ==
    Returned(1) =>
        /\ RunSync(pre[1], seq[1], args[1]).result = "ok"
        /\ RunSync(pre[1], seq[1], args[1]).table = db
        /\ RunSync(pre[1], seq[1], args[1]).stats = stats[1]
        /\ RunSync(pre[1], seq[1], args[1]).top = seq[0]

\* C6: a call that fails inside its transaction leaves the table as it was
\* when the call started, and no write of a call is in the committed table
\* before the commit
C6_AllOrNothing ==
    /\ InCall(1) => db = pre[1]
    /\ pc[1] = "raised" => db = pre[1]

\* a chunked create failed in its second batch, after the first was written
C6_Witness ==
    /\ pc[1] = "raised" /\ result[1] = "IntegrityError"
    /\ args[1].batch_size = 1 /\ Len(args[1].new_models) = 2
    /\ LET part == Classify(Fetched(pre[1], SeqOfSet(InScopePks(args[1], pre[1]))),
                            args[1].new_models, args[1].key_fields)
       IN  /\ Len(part.new_objs) = 2
           /\ part.new_objs[1].pk \notin DOMAIN pre[1] \cup {None}
           /\ part.new_objs[2].pk \in DOMAIN pre[1]

\* the rows a run inserted, changed and removed
CreatedRows(t0, t1) == [pk \in DOMAIN t1 \ DOMAIN t0 |-> t1[pk]]
UpdatedRows(t0, t1) == [pk \in {k \in DOMAIN t0 \cap DOMAIN t1 : t0[k] # t1[k]} |-> t1[pk]]
DeletedPks(t0, t1) == DOMAIN t0 \ DOMAIN t1

WithoutSkips(a) == [a EXCEPT !.skip_creates = FALSE, !.skip_updates = FALSE,
                             !.skip_deletes = FALSE]

\* a skipped phase writes nothing and reports 0; the other phases write and
\* report what the run `ref` of the same call without the flags did
SkipsOnlyItsPhase(a, t0, t1, st, ref) ==
    /\ IF a.skip_creates
       THEN CreatedRows(t0, t1) = Empty /\ st.created = 0
       ELSE CreatedRows(t0, t1) = CreatedRows(t0, ref.table) /\ st.created = ref.stats.created
    /\ IF a.skip_updates
       THEN UpdatedRows(t0, t1) = Empty /\ st.updated = 0
       ELSE UpdatedRows(t0, t1) = UpdatedRows(t0, ref.table) /\ st.updated = ref.stats.updated
    /\ IF a.skip_deletes
       THEN DeletedPks(t0, t1) = {} /\ st.deleted = 0
       ELSE DeletedPks(t0, t1) = DeletedPks(t0, ref.table) /\ st.deleted = ref.stats.deleted

\* C9 as stated: a skip flag suppresses the writes of its phase and makes its
\* count 0, and the writes and counts of the other phases are those of the call
\* without the flag on the same inputs and table
C9_AsStated ==
    Returned(1) /\ ~NoSkip(args[1]) =>
        SkipsOnlyItsPhase(args[1], pre[1], db, stats[1],
                          RunSync(pre[1], seq[1], WithoutSkips(args[1])))

\* the partition a call on table t0 computes, whatever its skip flags
PartitionOf(t0, a) ==
    Classify(Fetched(t0, Candidates(t0, a.filters)), a.new_models, a.key_fields)

\* the create phase inserted one row for each object of new_objs, under the pk
\* the object carries if it carries one, and reported their number
CreateApplied(t0, t1, st, part) ==
    /\ st.created = Len(part.new_objs)
    /\ Cardinality(DOMAIN CreatedRows(t0, t1)) = Len(part.new_objs)
    /\ \A i \in 1..Len(part.new_objs) : \E pk \in DOMAIN CreatedRows(t0, t1) :
          /\ t1[pk] = RowOf(part.new_objs[i])
          /\ part.new_objs[i].pk # None => pk = part.new_objs[i].pk

\* the update phase wrote the effective fields of each object of existing_objs
\* to its row, changed nothing else, and reported their number
UpdateApplied(a, t0, t1, st, part) ==
    /\ st.updated = Len(part.existing_objs)
    /\ \A j \in 1..Len(part.existing_objs) : part.existing_objs[j].pk \in DOMAIN t1
    /\ \A pk \in DOMAIN t0 \cap DOMAIN t1 :
          IF \E j \in 1..Len(part.existing_objs) : part.existing_objs[j].pk = pk
          THEN \A j \in 1..Len(part.existing_objs) :
                  part.existing_objs[j].pk = pk =>
                      \A f \in DOMAIN t1[pk] :
                          t1[pk][f] = IF f \in EffectiveFields(a)
                                      THEN DbValue(f, part.existing_objs[j][f])
                                      ELSE t0[pk][f]
          ELSE t1[pk] = t0[pk]

\* the delete phase removed the rows left in obj_dict and reported their number
DeleteApplied(t0, t1, st, part) ==
    /\ st.deleted = Len(part.obj_dict)
    /\ DeletedPks(t0, t1) = {part.obj_dict[j].pk : j \in 1..Len(part.obj_dict)}

\* a skipped phase writes nothing and reports 0; every other phase applies its
\* part of the partition and reports its size
PhasesApplied(a, t0, t1, st, part) ==
    /\ IF a.skip_creates THEN CreatedRows(t0, t1) = Empty /\ st.created = 0
       ELSE CreateApplied(t0, t1, st, part)
    /\ IF a.skip_updates THEN UpdatedRows(t0, t1) = Empty /\ st.updated = 0
       ELSE UpdateApplied(a, t0, t1, st, part)
    /\ IF a.skip_deletes THEN DeletedPks(t0, t1) = {} /\ st.deleted = 0
       ELSE DeleteApplied(t0, t1, st, part)

\* C9 amended: a call with skip flags partitions the desired objects and the
\* in-scope rows as the call without them does; a skipped phase writes nothing
\* and reports 0, and each other phase writes its part of the partition and
\* reports its size.  When the call without the flags returns, these are its
\* writes and counts; when it raises, it raises in a phase that is skipped
\* here, IntegrityError in the create phase or ValueError in the update phase,
\* and the call with the flags still applies its other phases.
C9_SkipFlags ==
    Returned(1) /\ ~NoSkip(args[1]) =>
        LET ref == RunSync(pre[1], seq[1], WithoutSkips(args[1]))
            part == [new_objs |-> new_objs[1], existing_objs |-> existing_objs[1],
                     obj_dict |-> obj_dict[1]]
        IN  /\ part = PartitionOf(pre[1], WithoutSkips(args[1]))
            /\ PhasesApplied(args[1], pre[1], db, stats[1], part)
            /\ ref.result = "ok" =>
                  SkipsOnlyItsPhase(args[1], pre[1], db, stats[1], ref)
            /\ ref.result # "ok" =>
                  \/ ref.result = "IntegrityError" /\ args[1].skip_creates
                  \/ ref.result = "ValueError" /\ args[1].skip_updates

\* skip_creates alone, in a call whose create phase would have raised: the
\* call returns and has deleted the unmatched row
C9_Witness ==
    /\ Returned(1)
    /\ args[1].skip_creates /\ ~args[1].skip_updates /\ ~args[1].skip_deletes
    /\ RunSync(pre[1], seq[1], WithoutSkips(args[1])).result = "IntegrityError"
    /\ new_objs[1] # <<>>
    /\ stats[1].deleted > 0 /\ DeletedPks(pre[1], db) # {}

\* desired object i and the in-scope row pk have the same canonical key, in
\* different raw representations
RawDiffers(p, i, pk) ==
    /\ pk \in InScopePks(args[p], pre[p])
    /\ DesiredKey(args[p], i) = StoredKey(args[p], pre[p][pk])
    /\ RawKey(args[p], i) # StoredKey(args[p], pre[p][pk])

\* desired object i is the update of row pk: not created, and the row is not
\* deleted
UpdateOf(p, i, pk) ==
    /\ \E j \in 1..Len(existing_objs[p]) :
          existing_objs[p][j] = [args[p].new_models[i] EXCEPT !.pk = pk]
    /\ \A j \in 1..Len(new_objs[p]) : new_objs[p][j] # args[p].new_models[i]
    /\ \A j \in 1..Len(obj_dict[p]) : obj_dict[p][j].pk # pk
    /\ Returned(p) /\ ~args[p].skip_deletes => pk \in DOMAIN db

\* no other desired object and no other in-scope row has that key
OnlyOnes(p, i, pk) ==
    /\ \A j \in 1..Len(args[p].new_models) :
          j # i => DesiredKey(args[p], j) # DesiredKey(args[p], i)
    /\ \A k \in InScopePks(args[p], pre[p]) :
          k # pk => StoredKey(args[p], pre[p][k]) # StoredKey(args[p], pre[p][pk])

\* C10 as stated: a desired object whose key differs in raw representation from
\* an in-scope row's key and equals it after canonicalization is the update of
\* that row
C10_AsStated ==
    Classified(1) =>
        \A i \in 1..Len(args[1].new_models) : \A pk \in DOMAIN pre[1] :
            RawDiffers(1, i, pk) => UpdateOf(1, i, pk)

\* C10 amended: the same, provided no other desired object has that canonical
\* key and no other in-scope row has that key
C10_CanonicalMatch ==
    Classified(1) =>
        \A i \in 1..Len(args[1].new_models) : \A pk \in DOMAIN pre[1] :
            RawDiffers(1, i, pk) /\ OnlyOnes(1, i, pk) => UpdateOf(1, i, pk)

\* the string "40" matched the stored integer 40 in a call that returned
C10_Witness ==
    /\ Returned(1)
    /\ \E i \in 1..Len(args[1].new_models) : \E pk \in DOMAIN pre[1] :
          RawDiffers(1, i, pk) /\ OnlyOnes(1, i, pk) /\ pk \in DOMAIN db

\* ------------------------------------------------------------- two callers: properties
\* a call is between its locked fetch and its commit or rollback
Holding(p) == pc[p] \in {"create", "update", "delete", "commit"}

\* the scope filters of two calls can select a common row
ScopesOverlap(a, b) ==
    a.filters = NoFilter \/ b.filters = NoFilter \/ a.filters = b.filters

\* C7 as stated: while one call is between its locked fetch and its commit or
\* rollback, a second call with an overlapping scope has not fetched, matched
\* or written: the two are never both past their fetch
C7_AsStated ==
    ScopesOverlap(args[1], args[2]) => ~(Holding(1) /\ Holding(2))

\* the rows of a table with the number of times each is stored, pks left aside
RowBag(t) ==
    {<<r, Cardinality({pk \in DOMAIN t : t[pk] = r})>> : r \in {t[pk] : pk \in DOMAIN t}}

\* the table after call a and then call b, each run alone
Serial(t0, top, a, b) ==
    LET first == RunSync(t0, top, a)
    IN  RunSync(first.table, first.top, b).table

\* both calls were started on the same committed table and both returned
BothReturned == Returned(1) /\ Returned(2) /\ pre[1] = pre[2]

\* no key is stored twice in the scope of call a
NoKeyTwice(a, t) ==
    \A j, k \in InScopePks(a, t) : j # k => StoredKey(a, t[j]) # StoredKey(a, t[k])

\* C8 as stated: when two calls with the same scope filter and key fields run
\* concurrently and both commit, the table is what the two calls leave when run
\* one after the other in some order, and no key is stored twice in scope
C8_AsStated ==
    /\ BothReturned
    /\ args[1].filters = args[2].filters
    /\ args[1].key_fields = args[2].key_fields
    /\ NoKeyTwice(args[1], pre[1])
    => /\ RowBag(db) \in {RowBag(Serial(pre[1], seq[1], args[1], args[2])),
                          RowBag(Serial(pre[1], seq[1], args[2], args[1]))}
       /\ NoKeyTwice(args[1], db)

\* ------------------------------------------------------------- successive runs
\* the calls run twice: default options, one or two key fields
TwiceArgs ==
    {MkArgs(m, <<"name">>, 1, DefaultOptions) : m \in NewModels}
    \cup {MkArgs(m, <<"name", "age">>, NoFilter, DefaultOptions) : m \in NewModels}

RECURSIVE MatchedPks(_, _, _)
\* for each object of new_models in turn, the pk `new_obj.pk = old_obj.pk`
\* wrote into it, None where it was classified create
MatchedPks(d, models, key_fields) ==
    IF models = <<>> THEN <<>>
    ELSE LET k == get_key(Head(models), key_fields, TRUE)
             old_pk == DictGet(d, k)
         IN  <<old_pk>> \o MatchedPks(IF old_pk = None THEN d ELSE DictRemove(d, k),
                                      Tail(models), key_fields)

\* the caller's objects as the call that returned left them: a matched object
\* carries the pk of its row, and an object created without a pk carries the
\* pk it was stored under when the backend's bulk_create returns the ids
HeldAfter(p) ==
    LET m == args[p].new_models
        mp == MatchedPks(BuildDict(objs[p], args[p].key_fields, <<>>), m, args[p].key_fields)
        given == {new_objs[p][n].pk : n \in 1..Len(new_objs[p])} \ {None}
        base == Max(DOMAIN pre[p] \cup {seq[p]} \cup given)
        rank(i) == Cardinality({j \in 1..i : mp[j] = None /\ m[j].pk = None})
    IN  [i \in 1..Len(m) |->
            IF mp[i] # None THEN [m[i] EXCEPT !.pk = mp[i]]
            ELSE IF m[i].pk = None /\ returns_ids /\ ~args[p].skip_creates
            THEN [m[i] EXCEPT !.pk = base + rank(i)]
            ELSE m[i]]

\* the call that returned is made again with the same arguments, the same
\* objects, nothing else having written in between
Again(p) ==
    /\ pc[p] = "done"
    /\ calls[p] < MaxRuns
    /\ Call(p, [args[p] EXCEPT !.new_models = HeldAfter(p)])

\* the call that returned is made again with new objects of the values first
\* passed, nothing else having written in between
AgainNew(p) ==
    /\ pc[p] = "done"
    /\ calls[p] < MaxRuns
    /\ Call(p, [args[p] EXCEPT !.new_models = args[p].passed])

\* successive runs are followed on both kinds of backend
InitTwice ==
    /\ db \in InitTables
    /\ pc = [p \in Procs |-> "idle"]
    /\ args = [p \in Procs |-> NoCall]
    /\ pre = [p \in Procs |-> Empty]
    /\ cand = [p \in Procs |-> <<>>]
    /\ locks = [p \in Procs |-> {}]
    /\ objs = [p \in Procs |-> <<>>]
    /\ obj_dict = [p \in Procs |-> <<>>]
    /\ new_objs = [p \in Procs |-> <<>>]
    /\ existing_objs = [p \in Procs |-> <<>>]
    /\ batches = [p \in Procs |-> <<>>]
    /\ ins = [p \in Procs |-> Empty]
    /\ dels = [p \in Procs |-> {}]
    /\ stats = [p \in Procs |-> NoStats]
    /\ result = [p \in Procs |-> "none"]
    /\ calls = [p \in Procs |-> 0]
    /\ cmp = NoCompare
    /\ seq = [q \in {0} \cup Procs |-> Max(DOMAIN db \cup {0})]
    /\ returns_ids \in BOOLEAN
    /\ sequence = FALSE

NextTwice ==
    \/ /\ calls[1] = 0
       /\ \E a \in TwiceArgs : Call(1, a)
    \/ Again(1)
    \/ AgainNew(1)
    \/ Fetch(1)
    \/ Create(1)
    \/ Update(1)
    \/ Delete(1)
    \/ Commit(1)
    \/ StorageError(1)

SpecTwice == InitTwice /\ [][NextTwice]_vars

\* a run after the first, of the same call, has returned
LaterRunReturned == Returned(1) /\ calls[1] > 1

\* C11 as stated: the second of two successive runs with the same desired
\* objects and scope, no skip flag, reports created = 0 and deleted = 0 and
\* leaves the stored rows and their values as the first run left them
C11_AsStated ==
    LaterRunReturned /\ NoSkip(args[1]) =>
        /\ stats[1].created = 0
        /\ stats[1].deleted = 0
        /\ db = pre[1]

\* the in-scope rows the run found that have the key of desired object i
MatchedRows(p, i) ==
    {pk \in InScopePks(args[p], pre[p]) :
        StoredKey(args[p], pre[p][pk]) = DesiredKey(args[p], i)}

\* the desired objects whose values differ from a stored row they match
Differing(p) ==
    {i \in 1..Len(args[p].new_models) :
        \E pk \in MatchedRows(p, i) : pre[p][pk] # RowOf(args[p].new_models[i])}

\* C12 as stated: on the second run the updated count is the number of desired
\* objects whose values differ from the stored row they match
C12_AsStated ==
    LaterRunReturned /\ ~args[1].skip_updates =>
        stats[1].updated = Cardinality(Differing(1))

\* the desired keys that an in-scope row the run found has
MatchedKeys(p) ==
    {DesiredKey(args[p], i) : i \in 1..Len(args[p].new_models)}
        \cap {StoredKey(args[p], pre[p][pk]) : pk \in InScopePks(args[p], pre[p])}

\* C12 amended: on the second run the updated count is the number of distinct
\* desired keys that an in-scope stored row has, whether or not a value differs
C12_UpdatedCountsMatches ==
    LaterRunReturned /\ ~args[1].skip_updates =>
        stats[1].updated = Cardinality(MatchedKeys(1))

\* a second run that found both desired objects stored as they are, changed
\* nothing and reported two updates
C12_Witness ==
    /\ LaterRunReturned
    /\ Len(args[1].new_models) = 2
    /\ Differing(1) = {}
    /\ db = pre[1]
    /\ stats[1].updated = 2

\* ------------------------------------------------------------- field set
\* the explicit fields, or every field that is not the primary key, not
\* auto-created and editable, less exclude_fields
EffectiveSet(a) ==
    (IF a.fields.given THEN a.fields.val ELSE {"name", "age", "company"})
        \ (IF a.exclude_fields.given THEN a.exclude_fields.val ELSE {})

\* the table as the call sees it once its update phase is over
AfterUpdate(p) == IF Returned(p) THEN db ELSE View(p)

\* C13: once the update phase is over, each matched row is still stored under
\* its pk, holds the desired value in every field of the effective field set
\* and its stored value in every other field
C13_OnlyEffectiveFields ==
    pc[1] \in {"delete", "commit", "done"} /\ ~args[1].skip_updates =>
        \A j \in 1..Len(existing_objs[1]) :
            LET o == existing_objs[1][j]
            IN  /\ o.pk \in DOMAIN pre[1] \cap DOMAIN AfterUpdate(1)
                /\ \A f \in {"name", "age", "company"} :
                      AfterUpdate(1)[o.pk][f] =
                          IF f \in EffectiveSet(args[1]) THEN to_python(f, o[f])
                          ELSE pre[1][o.pk][f]

\* a call with fields = ["age"] returned: a matched row took the desired age and
\* kept its company, which the desired object has different
C13_Witness ==
    /\ Returned(1) /\ ~args[1].skip_updates
    /\ args[1].fields.given /\ args[1].fields.val = {"age"}
    /\ \E j \in 1..Len(existing_objs[1]) :
          LET o == existing_objs[1][j]
          IN  /\ o.company # pre[1][o.pk].company
              /\ o.age # pre[1][o.pk].age
              /\ db[o.pk].age = o.age
              /\ db[o.pk].company = pre[1][o.pk].company

\* ------------------------------------------------------------- configuration errors
\* the model cannot be determined: an empty collection that is not a queryset,
\* and no db_class
UnknownModel(a) == a.new_models = <<>> /\ ~a.queryset /\ ~a.db_class

\* exclude_fields names a field the model does not have
UnknownExclude(a) ==
    a.exclude_fields.given
    /\ \E f \in a.exclude_fields.val : f \notin {"id", "name", "age", "company"}

\* C14: a call whose model cannot be determined, or whose exclude_fields names a
\* field the model does not have, raises at once: it is never inside its
\* transaction, holds no lock, has written nothing, and the table is as it was
C14_ConfigErrors ==
    pc[1] # "idle" /\ (UnknownModel(args[1]) \/ UnknownExclude(args[1])) =>
        /\ pc[1] = "raised"
        /\ result[1] = IF UnknownModel(args[1]) THEN "RuntimeError" ELSE "FieldDoesNotExist"
        /\ db = pre[1]
        /\ locks[1] = {} /\ ins[1] = Empty /\ dels[1] = {}

\* exclude_fields = ["missing_field"] on a table with rows and a non-empty
\* new_models raised FieldDoesNotExist
C14_Witness ==
    /\ pc[1] = "raised" /\ result[1] = "FieldDoesNotExist"
    /\ UnknownExclude(args[1])
    /\ args[1].new_models # <<>>
    /\ db # Empty

\* C15 as stated: a call with an empty key_fields raises before anything is
\* written and never opens its transaction
C15_AsStated ==
    pc[1] # "idle" /\ args[1].key_fields = <<>> =>
        /\ pc[1] = "raised"
        /\ db = pre[1]

\* ------------------------------------------------------------- identifiers
\* desired object i carries a pk and its key is the key of no in-scope row
CreateWithPk(p, i) ==
    /\ args[p].new_models[i].pk # None
    /\ MatchedRows(p, i) = {}

\* C16: a desired object that carries a pk and whose key matches no in-scope
\* row is never matched by that pk.  When the pk is stored, in scope or not,
\* the call does not get past its create phase, it raises a uniqueness
\* violation unless the call was refused or the storage failed first, and the
\* table is as it was; when the pk is not stored, a call that returns has
\* inserted the object under that pk
C16_MatchByKeyOnly ==
    pc[1] # "idle" /\ ~args[1].skip_creates =>
        \A i \in 1..Len(args[1].new_models) :
            CreateWithPk(1, i) =>
                LET o == args[1].new_models[i]
                IN  IF o.pk \in DOMAIN pre[1]
                    THEN /\ pc[1] \in {"fetch", "create", "raised"}
                         /\ db = pre[1]
                         /\ pc[1] = "raised" =>
                               result[1] \in {"IntegrityError", "DatabaseError",
                                              "FieldDoesNotExist"}
                    ELSE Returned(1) => /\ o.pk \in DOMAIN db
                                        /\ db[o.pk] = RowOf(o)

\* a desired object carrying the pk of an out-of-scope row, whose key matches
\* no in-scope row, made the call raise IntegrityError
C16_Witness ==
    /\ pc[1] = "raised" /\ result[1] = "IntegrityError"
    /\ \E i \in 1..Len(args[1].new_models) :
          /\ CreateWithPk(1, i)
          /\ args[1].new_models[i].pk \in DOMAIN pre[1]
          /\ ~InScope(args[1], pre[1][args[1].new_models[i].pk])

\* ------------------------------------------------------------- bulk_compare
\* An old object is [pk, name, age, company]; a new object is a desired object
\* with `ix`, its position in new_models, standing for the identity of the
\* Python object.  The old objects are stored rows: each has its own pk.

\* Employee._meta.get_fields(), by name, and the attribute each is read from
CompareFields == {"id", "age", "name", "company"}
AttName(f) == IF f = "company" THEN "company_id" ELSE f
GetAttr(obj, f) == IF f = "id" THEN obj.pk ELSE obj[f]

\* bulk_compare.get_key(obj)
compare_get_key(obj, key_fields) == [j \in 1..Len(key_fields) |-> obj[key_fields[j]]]

\* old_obj_dict, an OrderedDict: a sequence of [key, obj] entries
OldHas(d, k) == \E j \in 1..Len(d) : d[j].key = k
OldGet(d, k) == d[CHOOSE j \in 1..Len(d) : d[j].key = k].obj
\* faulty variant: a plain mapping that does not keep the insertion order
OldPutFront(d, k, obj) ==
    IF OldHas(d, k)
    THEN [j \in 1..Len(d) |-> IF d[j].key = k THEN [key |-> k, obj |-> obj] ELSE d[j]]
    ELSE <<[key |-> k, obj |-> obj]>> \o d

OldPut(d, k, obj) ==
    IF OldHas(d, k)
    THEN [j \in 1..Len(d) |-> IF d[j].key = k THEN [key |-> k, obj |-> obj] ELSE d[j]]
    ELSE Append(d, [key |-> k, obj |-> obj])
\* faulty variant: the entry is read and left in the mapping
OldKeep(d, k) == d

OldPop(d, k) == SelectSeq(d, LAMBDA e : e.key # k)

RECURSIVE OrderedDictOf(_, _, _)
\* OrderedDict((get_key(obj), obj) for obj in old_models)
OrderedDictOf(old_models, key_fields, d) ==
    IF old_models = <<>> THEN d
    ELSE OrderedDictOf(Tail(old_models), key_fields,
                       OldPut(d, compare_get_key(Head(old_models), key_fields),
                              Head(old_models)))

\* `ignore_fields and f.attname in ignore_fields`
Ignored(f, ignore_fields) ==
    ignore_fields.given /\ ignore_fields.val # {} /\ AttName(f) \in ignore_fields.val

\* faulty variant: the attribute values are compared as they are
compare_objs_raw(obj1, obj2, ignore_fields) ==
    [f \in {g \in CompareFields :
                ~Ignored(g, ignore_fields) /\ GetAttr(obj1, g) # GetAttr(obj2, g)}
        |-> <<GetAttr(obj1, f), GetAttr(obj2, f)>>]

\* compare_objs: {field name: (old value, new value)} of the fields that differ
compare_objs(obj1, obj2, ignore_fields) ==
    [f \in {g \in CompareFields :
                /\ ~Ignored(g, ignore_fields)
                /\ to_python(g, GetAttr(obj1, g)) # to_python(g, GetAttr(obj2, g))}
        |-> <<to_python(f, GetAttr(obj1, f)), to_python(f, GetAttr(obj2, f))>>]

\* change_details[new_obj] = cmp_result: model objects hash and compare by pk
DetailsPut(d, obj, details) ==
    IF \E j \in 1..Len(d) : d[j].obj.pk = obj.pk
    THEN [j \in 1..Len(d) |->
            IF d[j].obj.pk = obj.pk THEN [obj |-> d[j].obj, details |-> details] ELSE d[j]]
    ELSE Append(d, [obj |-> obj, details |-> details])

\* the i-th object of new_models
NewObj(new_models, i) ==
    [ix |-> i, pk |-> new_models[i].pk, name |-> new_models[i].name,
     age |-> new_models[i].age, company |-> new_models[i].company]

\* faulty variant: the matched new object keeps the pk it came with
SetPkKept(new_obj, old_obj) == new_obj

\* `new_obj.pk = old_obj.pk`
SetPk(new_obj, old_obj) == [new_obj EXCEPT !.pk = old_obj.pk]

\* bulk_compare is called: old_obj_dict is built and the lists are empty
CompareCall(old_models, new_models, key_fields, ignore_fields) ==
    /\ cmp' = [pc |-> "loop", old_models |-> old_models, new_models |-> new_models,
               key_fields |-> key_fields, ignore_fields |-> ignore_fields,
               old_obj_dict |-> OrderedDictOf(old_models, key_fields, <<>>),
               i |-> 1, new_objs |-> <<>>, change_details |-> <<>>,
               updated_objs |-> <<>>, unchanged_objs |-> <<>>, removed |-> <<>>]
    /\ UNCHANGED <<db, pc, args, pre, txvars, stats, result, calls, seq, returns_ids, sequence>>

\* one iteration of `for new_obj in new_models`
CompareStep ==
    /\ cmp.pc = "loop"
    /\ cmp.i <= Len(cmp.new_models)
    /\ LET new_obj == NewObj(cmp.new_models, cmp.i)
           k == compare_get_key(new_obj, cmp.key_fields)
       IN  IF ~OldHas(cmp.old_obj_dict, k)
           THEN cmp' = [cmp EXCEPT !.i = @ + 1, !.new_objs = Append(@, new_obj)]
           ELSE LET old_obj == OldGet(cmp.old_obj_dict, k)
                    matched == SetPk(new_obj, old_obj)
                    cmp_result == compare_objs(old_obj, matched, cmp.ignore_fields)
                IN  IF DOMAIN cmp_result # {}
                    THEN cmp' = [cmp EXCEPT
                                    !.i = @ + 1,
                                    !.old_obj_dict = OldPop(@, k),
                                    !.updated_objs = Append(@, matched),
                                    !.change_details = DetailsPut(@, matched, cmp_result)]
                    ELSE cmp' = [cmp EXCEPT
                                    !.i = @ + 1,
                                    !.old_obj_dict = OldPop(@, k),
                                    !.unchanged_objs = Append(@, matched)]
    /\ UNCHANGED <<db, pc, args, pre, txvars, stats, result, calls, seq, returns_ids, sequence>>

\* the loop is over: the result is returned, removed is old_obj_dict.values()
CompareReturn ==
    /\ cmp.pc = "loop"
    /\ cmp.i > Len(cmp.new_models)
    /\ cmp' = [cmp EXCEPT
                  !.pc = "done",
                  !.removed = [j \in 1..Len(cmp.old_obj_dict) |-> cmp.old_obj_dict[j].obj]]
    /\ UNCHANGED <<db, pc, args, pre, txvars, stats, result, calls, seq, returns_ids, sequence>>

\* old_models: the rows of a table, by ascending or descending pk
CompareOld ==
    {Fetched(t, SeqOfSet(DOMAIN t)) : t \in InitTables}
    \cup {Reverse(Fetched(t, SeqOfSet(DOMAIN t))) : t \in InitTables}

CompareKeys == {<<"name">>, <<"name", "age">>}

\* ignore_fields: None, (), an attribute name, or the name of the foreign key
CompareIgnore == {NoArg, Arg({}), Arg({"age"}), Arg({"company_id"}), Arg({"company"})}

InitCompare ==
    /\ db = Empty
    /\ pc = [p \in Procs |-> "idle"]
    /\ args = [p \in Procs |-> NoCall]
    /\ pre = [p \in Procs |-> Empty]
    /\ cand = [p \in Procs |-> <<>>]
    /\ locks = [p \in Procs |-> {}]
    /\ objs = [p \in Procs |-> <<>>]
    /\ obj_dict = [p \in Procs |-> <<>>]
    /\ new_objs = [p \in Procs |-> <<>>]
    /\ existing_objs = [p \in Procs |-> <<>>]
    /\ batches = [p \in Procs |-> <<>>]
    /\ ins = [p \in Procs |-> Empty]
    /\ dels = [p \in Procs |-> {}]
    /\ stats = [p \in Procs |-> NoStats]
    /\ result = [p \in Procs |-> "none"]
    /\ calls = [p \in Procs |-> 0]
    /\ cmp = NoCompare
    /\ seq = [q \in {0} \cup Procs |-> Max(DOMAIN db \cup {0})]
    /\ returns_ids = FALSE
    /\ sequence = FALSE

NextCompare ==
    \/ /\ cmp.pc = "idle"
       /\ \E o \in CompareOld, n \in NewModels, k \in CompareKeys, g \in CompareIgnore :
             CompareCall(o, n, k, g)
    \/ CompareStep
    \/ CompareReturn

SpecCompare == InitCompare /\ [][NextCompare]_vars

\* ------------------------------------------------------------- bulk_compare: properties
CompareDone == cmp.pc = "done"

\* the key of an object: the tuple of its key field attributes
CmpKey(o) == [j \in 1..Len(cmp.key_fields) |-> o[cmp.key_fields[j]]]

IxOf(list) == {list[j].ix : j \in 1..Len(list)}

\* the objects of a list are in the order they have in new_models, none twice
InOrder(list) == \A j, k \in 1..Len(list) : j < k => list[j].ix < list[k].ix

\* the objects of a list are the objects of new_models at their positions
FromNewModels(list) ==
    \A j \in 1..Len(list) :
        /\ list[j].ix \in 1..Len(cmp.new_models)
        /\ \A f \in {"name", "age", "company"} : list[j][f] = cmp.new_models[list[j].ix][f]

\* added, updated and unchanged partition new_models and keep its order
ThreeLists ==
    /\ InOrder(cmp.new_objs) /\ InOrder(cmp.updated_objs) /\ InOrder(cmp.unchanged_objs)
    /\ FromNewModels(cmp.new_objs) /\ FromNewModels(cmp.updated_objs)
    /\ FromNewModels(cmp.unchanged_objs)
    /\ IxOf(cmp.new_objs) \cup IxOf(cmp.updated_objs) \cup IxOf(cmp.unchanged_objs)
          = 1..Len(cmp.new_models)
    /\ IxOf(cmp.new_objs) \cap IxOf(cmp.updated_objs) = {}
    /\ IxOf(cmp.new_objs) \cap IxOf(cmp.unchanged_objs) = {}
    /\ IxOf(cmp.updated_objs) \cap IxOf(cmp.unchanged_objs) = {}

\* the new objects that were matched to an old one
MatchedObjs == Range(cmp.updated_objs) \cup Range(cmp.unchanged_objs)

\* old object m has the key of new object i and no earlier new object was
\* matched to it
UnmatchedWithKey(i, m) ==
    /\ CmpKey(cmp.old_models[m]) = CmpKey(cmp.new_models[i])
    /\ ~\E o \in MatchedObjs : o.ix < i /\ o.pk = cmp.old_models[m].pk

\* new object i is in added exactly when no old object with its key is still
\* unmatched when it is processed
AddedRule ==
    \A i \in 1..Len(cmp.new_models) :
        (i \in IxOf(cmp.new_objs)) <=>
            ~\E m \in 1..Len(cmp.old_models) : UnmatchedWithKey(i, m)

DistinctOldKeys ==
    \A m, n \in 1..Len(cmp.old_models) :
        m # n => CmpKey(cmp.old_models[m]) # CmpKey(cmp.old_models[n])

\* C17 as stated: added, updated and unchanged partition new_models, each in
\* the order of new_models, and a new object is in added exactly when no old
\* object with its key is still unmatched when it is processed
C17_AsStated == CompareDone => ThreeLists /\ AddedRule

\* C17 amended: the partition holds for every call, and the rule for added
\* holds provided the old objects have pairwise distinct keys
C17_ThreeLists ==
    /\ CompareDone => ThreeLists
    /\ CompareDone /\ DistinctOldKeys => AddedRule

\* two new objects with the same key: the first was matched to the old object
\* with that key, the second was added
C17_Witness ==
    /\ CompareDone /\ DistinctOldKeys
    /\ Len(cmp.new_models) = 2
    /\ CmpKey(cmp.new_models[1]) = CmpKey(cmp.new_models[2])
    /\ 1 \in IxOf(cmp.updated_objs) \cup IxOf(cmp.unchanged_objs)
    /\ 2 \in IxOf(cmp.new_objs)

\* the old objects whose key is the key of no new object, in their order
Unclaimed ==
    SelectSeq(cmp.old_models,
              LAMBDA o : \A i \in 1..Len(cmp.new_models) : CmpKey(o) # CmpKey(cmp.new_models[i]))

\* C18 as stated: removed is the old objects whose key is the key of no new
\* object, in their order in old_models
C18_AsStated == CompareDone => cmp.removed = Unclaimed

\* C18 amended: the same, provided the old objects have pairwise distinct keys
C18_Removed == CompareDone /\ DistinctOldKeys => cmp.removed = Unclaimed

\* two old objects given by descending pk, both removed in that order, in a
\* call with new objects
C18_Witness ==
    /\ CompareDone /\ DistinctOldKeys
    /\ cmp.new_models # <<>>
    /\ Len(cmp.removed) = 2
    /\ cmp.removed[1].pk > cmp.removed[2].pk

\* a field is named in ignore_fields, by its attribute name
NamedIgnored(f) ==
    cmp.ignore_fields.given
    /\ (IF f = "company" THEN "company_id" ELSE f) \in cmp.ignore_fields.val

\* the fields, other than the identifier, whose canonical values differ
Diff(old, o) ==
    {f \in {"age", "name", "company"} :
        ~NamedIgnored(f) /\ to_python(f, old[f]) # to_python(f, o[f])}

\* C19: every matched new object carries the pk of the old object with its
\* key; it is in updated exactly when a field not named in ignore_fields has
\* different canonical values in the two, the identifier never counting; the
\* keys of updated_details are the updated objects, and each is mapped to its
\* differing fields with the pair (old canonical value, new canonical value)
C19_UpdatedOrUnchanged ==
    CompareDone =>
        /\ \A o \in MatchedObjs :
              \E m \in 1..Len(cmp.old_models) :
                  LET old == cmp.old_models[m]
                  IN  /\ old.pk = o.pk
                      /\ CmpKey(old) = CmpKey(cmp.new_models[o.ix])
                      /\ (o \in Range(cmp.updated_objs)) <=> (Diff(old, o) # {})
                      /\ o \in Range(cmp.updated_objs) =>
                            \E j \in 1..Len(cmp.change_details) :
                                /\ cmp.change_details[j].obj = o
                                /\ cmp.change_details[j].details =
                                      [f \in Diff(old, o) |->
                                          <<to_python(f, old[f]), to_python(f, o[f])>>]
        /\ Len(cmp.change_details) = Len(cmp.updated_objs)
        /\ {cmp.change_details[j].obj : j \in 1..Len(cmp.change_details)}
              = Range(cmp.updated_objs)

\* a new object given with another pk and the age as the string "40" was
\* matched by name to an old object of age 40 and is unchanged, next to an
\* updated one
C19_Witness ==
    /\ CompareDone
    /\ Len(cmp.updated_objs) = 1
    /\ \E o \in Range(cmp.unchanged_objs) :
          /\ "str" \in DOMAIN cmp.new_models[o.ix].age
          /\ cmp.key_fields = <<"name">>
    /\ \E o \in Range(cmp.updated_objs) :
          cmp.new_models[o.ix].pk \notin {None, o.pk}

\* the canonical key of an object
CanonKey(o) ==
    [j \in 1..Len(cmp.key_fields) |-> to_python(cmp.key_fields[j], o[cmp.key_fields[j]])]

CanonKeys(list) == {CanonKey(list[j]) : j \in 1..Len(list)}

\* C20 as stated: on the same old objects, new objects and key fields, added
\* has the keys and the size of what bulk_sync creates, updated plus unchanged
\* of what it updates, removed of what it deletes
C20_AsStated ==
    CompareDone =>
        LET part == Classify(cmp.old_models, cmp.new_models, cmp.key_fields)
        IN  /\ CanonKeys(cmp.new_objs) = CanonKeys(part.new_objs)
            /\ Len(cmp.new_objs) = Len(part.new_objs)
            /\ CanonKeys(cmp.updated_objs \o cmp.unchanged_objs)
                  = CanonKeys(part.existing_objs)
            /\ Len(cmp.updated_objs) + Len(cmp.unchanged_objs) = Len(part.existing_objs)
            /\ CanonKeys(cmp.removed)
                  = {part.obj_dict[j].key : j \in 1..Len(part.obj_dict)}
            /\ Len(cmp.removed) = Len(part.obj_dict)
\* ------------------------------------------------ bulk_compare and its inputs
\* the old objects bulk_compare holds or returns are objects of old_models
OldObjectsAsPassed ==
    /\ \A j \in 1..Len(cmp.old_obj_dict) : cmp.old_obj_dict[j].obj \in Range(cmp.old_models)
    /\ \A j \in 1..Len(cmp.removed) : cmp.removed[j] \in Range(cmp.old_models)

\* a matched new object has the pk of an old object with its key, and the
\* other fields it was passed with
MatchedGotOldPk ==
    \A o \in MatchedObjs :
        /\ \E m \in 1..Len(cmp.old_models) :
              /\ cmp.old_models[m].pk = o.pk
              /\ CmpKey(cmp.old_models[m]) = CmpKey(cmp.new_models[o.ix])
        /\ \A f \in {"name", "age", "company"} : o[f] = cmp.new_models[o.ix][f]

\* an added new object is the object it was passed as, pk included
AddedAsPassed ==
    \A j \in 1..Len(cmp.new_objs) :
        \A f \in {"pk", "name", "age", "company"} :
            cmp.new_objs[j][f] = cmp.new_models[cmp.new_objs[j].ix][f]

\* C21: bulk_compare leaves storage and the objects of old_models as they
\* were; the only thing it changes in its inputs is the pk of each new object
\* it matched, which becomes the pk of the old object with its key; the new
\* objects in added keep the pk they had.
C21_FrameOfCompare ==
    /\ [](cmp.pc # "idle" => OldObjectsAsPassed /\ MatchedGotOldPk /\ AddedAsPassed)
    /\ [][cmp.pc # "idle" =>
            /\ db' = db /\ ins' = ins /\ dels' = dels
            /\ cmp'.old_models = cmp.old_models
            /\ \A i \in 1..Len(cmp.new_models) :
                  \A f \in {"name", "age", "company"} :
                      cmp'.new_models[i][f] = cmp.new_models[i][f]]_vars

\* a new object that came with one pk was matched to an old object with
\* another, and a new object that came with a pk was added
C21_Witness ==
    /\ CompareDone
    /\ \E o \in MatchedObjs :
          cmp.new_models[o.ix].pk # None /\ cmp.new_models[o.ix].pk # o.pk
    /\ \E j \in 1..Len(cmp.new_objs) : cmp.new_objs[j].pk # None
    /\ cmp.removed # <<>>

\* ------------------------------------------------ two callers: waiting
\* no row is in the scope of both calls
DisjointScopes(a, b) ==
    a.filters # NoFilter /\ b.filters # NoFilter /\ a.filters # b.filters

\* p is at a row of its locking fetch that q holds locked
WaitsForLock(p, q) ==
    pc[p] = "fetch" /\ cand[p] # <<>> /\ Head(cand[p]) \in locks[q]

\* p is at the INSERT of a row whose pk, carried by the desired object or
\* drawn for it, q has inserted and not committed
WaitsForInsert(p, q) ==
    /\ pc[p] = "create" /\ batches[p] # <<>>
    /\ batches[p][1][1].pk # None
    /\ batches[p][1][1].pk \in DOMAIN ins[q] \ DOMAIN db

Waits(p, q) == WaitsForLock(p, q) \/ WaitsForInsert(p, q)

\* the pks the desired objects of a call carry
CarriedPks(a) == {a.new_models[i].pk : i \in 1..Len(a.new_models)} \ {None}

FirstWithKey(a, i) == \A j \in 1..(i - 1) : DesiredKey(a, j) # DesiredKey(a, i)
LastWithKey(a, i) ==
    \A j \in (i + 1)..Len(a.new_models) : DesiredKey(a, j) # DesiredKey(a, i)

\* desired object i is classified as the update of a row it matches
IsUpdateOf(p, i) ==
    \E e \in 1..Len(existing_objs[p]) : \E pk \in MatchedRows(p, i) :
        existing_objs[p][e] = [args[p].new_models[i] EXCEPT !.pk = pk]

\* desired object i is classified as a create, as it was passed
IsCreate(p, i) ==
    \E n \in 1..Len(new_objs[p]) : new_objs[p][n] = args[p].new_models[i]

\* C23 as stated: of several desired objects with one key that an in-scope
\* row has, the last is classified as the update of that row
C23_AsStated ==
    Classified(1) =>
        \A i \in 1..Len(args[1].new_models) :
            /\ MatchedRows(1, i) # {}
            /\ ~FirstWithKey(args[1], i) /\ LastWithKey(args[1], i)
            => IsUpdateOf(1, i)

\* C23: of several desired objects with one key that an in-scope row has, the
\* first is classified as the update of that row and every later one as a
\* create; there is one update for each matched key.
C23_FirstWins ==
    Classified(1) =>
        /\ \A i \in 1..Len(args[1].new_models) :
              MatchedRows(1, i) # {} =>
                  IF FirstWithKey(args[1], i) THEN IsUpdateOf(1, i) ELSE IsCreate(1, i)
        /\ Len(existing_objs[1]) = Cardinality(MatchedKeys(1))

\* two desired objects with the key of a stored row and different ages: the
\* first is the update, the second the create
C23_Witness ==
    /\ Classified(1)
    /\ Len(args[1].new_models) = 2
    /\ DesiredKey(args[1], 1) = DesiredKey(args[1], 2)
    /\ args[1].new_models[1].age # args[1].new_models[2].age
    /\ \E pk \in MatchedRows(1, 1) :
          existing_objs[1] = <<[args[1].new_models[1] EXCEPT !.pk = pk]>>
    /\ new_objs[1] = <<args[1].new_models[2]>>

\* ------------------------------------------------ two callers: the delete phase
\* the pks of the rows the locking fetch of p returned
FetchedPks(p) == {objs[p][i].pk : i \in 1..Len(objs[p])}

\* a desired object of p has the key of the row
Claimed(p, row) ==
    \E i \in 1..Len(args[p].new_models) :
        DesiredKey(args[p], i) = StoredKey(args[p], row)

\* C24: when the delete phase of a call is over, every row it deleted was
\* returned by the locking fetch of the call, has the key of no desired
\* object and is in scope; so a row that another transaction has inserted
\* into the scope since the fetch is not deleted by the call.
C24_DeletesOnlyFetched ==
    \A p \in Procs :
        pc[p] = "commit" =>
            \A pk \in dels[p] :
                /\ pk \in FetchedPks(p)
                /\ pk \in DOMAIN db
                /\ InScope(args[p], db[pk])
                /\ ~Claimed(p, db[pk])

\* the call has deleted a row, and a row that another call has committed into
\* its scope since its fetch is still there
C24_Witness ==
    /\ pc[1] = "commit"
    /\ dels[1] # {}
    /\ \E pk \in DOMAIN db :
          /\ pk \notin DOMAIN pre[1] /\ pk \notin FetchedPks(1)
          /\ InScope(args[1], db[pk])
          /\ pk \notin dels[1] /\ pk \notin DOMAIN ins[1]

\* ------------------------------------------------ two callers: termination
\* C25: no state is reachable in which two calls each wait for a row lock the
\* other holds, and every call that is in progress ends, by commit or by
\* rollback.
C25_AllCallsEnd ==
    /\ [](\A p \in Procs : \A q \in Procs \ {p} :
            ~(WaitsForLock(p, q) /\ WaitsForLock(q, p)))
    /\ \A p \in Procs : InCall(p) ~> pc[p] \in {"done", "raised"}

\* a call that holds the lock of one row waits for the lock of the next, which
\* the other call holds
C25_Witness ==
    /\ WaitsForLock(1, 2)
    /\ locks[1] # {} /\ locks[2] # {}

\* ------------------------------------------------ the order of new_models
\* the sequences with the elements of s in any order
Perms(s) ==
    {[i \in 1..Len(s) |-> s[f[i]]] :
        f \in {g \in [1..Len(s) -> 1..Len(s)] :
                  \A i, j \in 1..Len(s) : i # j => g[i] # g[j]}}

\* C26: when the desired objects have pairwise distinct keys and so have the
\* in-scope rows, a call that returned would have returned for every other
\* order of new_models too, with the same counts, the same rows deleted, and
\* the same pk and stored values for every matched row.
C26_OrderIndependent ==
    /\ Returned(1)
    /\ DistinctDesiredKeys(args[1])
    /\ DistinctStoredKeys(args[1], pre[1])
    => \A m \in Perms(args[1].new_models) :
           LET r == RunSync(pre[1], seq[1], [args[1] EXCEPT !.new_models = m])
           IN  /\ r.result = "ok"
               /\ r.stats = stats[1]
               /\ DOMAIN pre[1] \ DOMAIN r.table = DOMAIN pre[1] \ DOMAIN db
               /\ \A i \in 1..Len(args[1].new_models) :
                     \A pk \in MatchedRows(1, i) :
                         (pk \in DOMAIN r.table) = (pk \in DOMAIN db)
                         /\ (pk \in DOMAIN db => r.table[pk] = db[pk])

\* two different desired objects, one matched and one created, and a row
\* deleted
C26_Witness ==
    /\ Returned(1)
    /\ DistinctDesiredKeys(args[1])
    /\ DistinctStoredKeys(args[1], pre[1])
    /\ Len(args[1].new_models) = 2
    /\ MatchedRows(1, 2) # {} /\ MatchedRows(1, 1) = {}
    /\ stats[1] = [created |-> 1, updated |-> 1, deleted |-> 1]

====
